---- MODULE Spec2Model ----
(***************************************************************************)
(* State-machine model of the dual-pane file browser of src/mc.py          *)
(* (class MidnightCommander) : the pane/navigation state, the modal        *)
(* prompts, the external-process hand-off and the copy operation (Spec),   *)
(* and of the navigation of its py_cui variant src/mc_old.py (SpecOld).    *)
(*                                                                         *)
(* File names are sequences of codepoints, paths are sequences of names    *)
(* (<<>> is the filesystem root "/"), the filesystem is a function from    *)
(* paths to nodes.                                                         *)
(***************************************************************************)
EXTENDS Integers, Sequences, FiniteSets, TLC

(* ------------------------------ bounds -------------------------------- *)
\* longest path (number of components) of the modelled filesystem
MaxDepth == 3
\* largest terminal height (rows) the environment resizes to
MaxH == 8
\* largest selected index / scroll offset the scroll rule is applied to
MaxIndex == 4
\* largest '_moved' number the destination directory may already hold
MaxMoved == 3

(* ------------------------- program constants -------------------------- *)
\* create_windows: panel_height = height - 4
PanelMargin == 4
\* _adjust_scroll / draw_panel / handle_resize: visible rows = panel height - 2
FrameRows == 2
\* handle_enter: offset = max(0, selected - (panel height - 3))
EnterMargin == 3

(* ------------------------------- names -------------------------------- *)
DOTDOT == <<46, 46>>
NameA == <<97>>
NameAB == <<97, 98>>
NameB == <<98>>
Names == {NameA, NameAB, NameB}
EmptyName == <<>>

Panes == {"left", "right"}
Other(p) == IF p = "left" THEN "right" ELSE "left"

Min2(a, b) == IF a < b THEN a ELSE b
Max2(a, b) == IF a > b THEN a ELSE b

\* Python str comparison: lexicographic by codepoint
NameLess(a, b) ==
    \/ /\ Len(a) < Len(b)
       /\ \A i \in 1..Len(a) : a[i] = b[i]
    \/ \E i \in 1..Min2(Len(a), Len(b)) :
          /\ a[i] < b[i]
          /\ \A j \in 1..(i - 1) : a[j] = b[j]

\* sorted(names)
RECURSIVE sorted(_)
sorted(S) ==
    IF S = {} THEN <<>>
    ELSE LET m == CHOOSE x \in S : \A y \in S \ {x} : NameLess(x, y)
         IN <<m>> \o sorted(S \ {m})

\* list.index(x) (0-based); the caller checks membership first
RECURSIVE IndexFrom(_, _, _)
IndexFrom(seq, x, i) ==
    IF i > Len(seq) THEN 0
    ELSE IF seq[i] = x THEN i - 1
    ELSE IndexFrom(seq, x, i + 1)
index(seq, x) == IndexFrom(seq, x, 1)

InList(seq, x) == \E i \in 1..Len(seq) : seq[i] = x

(* ------------------------------- paths -------------------------------- *)
Paths == UNION {[1..n -> Names] : n \in 0..MaxDepth}
Root == <<>>

\* os.path.join(directory, name) for a plain name
join(d, n) == Append(d, n)
\* os.path.dirname: the parent, the root being its own parent
dirname(p) == IF p = Root THEN Root ELSE SubSeq(p, 1, Len(p) - 1)
\* os.path.basename: the last component, '' for the root
basename(p) == IF p = Root THEN EmptyName ELSE p[Len(p)]

IsPrefix(p, q) == Len(p) <= Len(q) /\ SubSeq(q, 1, Len(p)) = p

(* ----------------------------- filesystem ----------------------------- *)
\* node of a path: absent, regular file with content 1 or 2, directory,
\* directory without any permission (cannot be listed or entered)
FileNodes == {"f1", "f2"}
DirNodes == {"dir", "xdir"}

NodeAt(f, p) == IF p \in Paths THEN f[p] ELSE "none"
exists(f, p) == NodeAt(f, p) # "none"
isdir(f, p) == NodeAt(f, p) \in DirNodes

\* the names os.scandir(d) yields
Children(f, d) == {n \in Names : exists(f, join(d, n))}


(* --------------------------- program state ---------------------------- *)
VARIABLES
    dir,                  \* left_dir / right_dir
    files,                \* left_files / right_files
    selected,             \* left_selected / right_selected
    offset,               \* left_offset / right_offset
    active_pane,          \* 'left' or 'right'
    panel_h,              \* height of left_panel / right_panel (getmaxyx()[0])
    escape_pressed,       \* escape_pressed
    esc_age,              \* current_time - escape_time compared with 0.5 s
    command_line_content, \* the command-line buffer
    fs,                   \* the filesystem
    term,                 \* "prog" after reset_prog_mode, "shell" after endwin
    pc,                   \* where control is: loop, getch, prompt, external, exited
    prompt,               \* the open MessageBox: none, copy, quit, error
    result,               \* what the last MessageBox.show returned
    proc,                 \* the running external process: none, view, edit, shell
    cont,                 \* the rest of the handler that is blocked
    changed,              \* the filesystem is no longer the initial one
    pre,                  \* the state in which the last handler (or resize) started
    last,                 \* what the last handler did
    trip,                 \* an Enter that changed directory, and the Enter right after it
    old                   \* the state of the py_cui variant (src/mc_old.py)

vars == <<dir, files, selected, offset, active_pane, panel_h, escape_pressed,
          esc_age, command_line_content, fs, term, pc, prompt, result, proc,
          cont, changed, pre, last, trip, old>>

\* the program state as one record, the form the handlers work on
St == [dir |-> dir, files |-> files, selected |-> selected, offset |-> offset,
       active_pane |-> active_pane, panel_h |-> panel_h,
       escape_pressed |-> escape_pressed, esc_age |-> esc_age,
       command_line_content |-> command_line_content, fs |-> fs,
       term |-> term, pc |-> pc, prompt |-> prompt, result |-> result,
       proc |-> proc, cont |-> cont, io |-> "ok", last |-> last]

SetState(t) ==
    /\ dir' = t.dir
    /\ files' = t.files
    /\ selected' = t.selected
    /\ offset' = t.offset
    /\ active_pane' = t.active_pane
    /\ panel_h' = t.panel_h
    /\ escape_pressed' = t.escape_pressed
    /\ esc_age' = t.esc_age
    /\ command_line_content' = t.command_line_content
    /\ fs' = t.fs
    /\ term' = t.term
    /\ pc' = t.pc
    /\ prompt' = t.prompt
    /\ result' = t.result
    /\ proc' = t.proc
    /\ cont' = t.cont
    /\ last' = t.last

\* the part of the state the claims compare before and after a handler
Snapshot(s) == [dir |-> s.dir, files |-> s.files, selected |-> s.selected,
                offset |-> s.offset, active_pane |-> s.active_pane,
                panel_h |-> s.panel_h,
                command_line_content |-> s.command_line_content,
                escape_pressed |-> s.escape_pressed, term |-> s.term]
NoSnapshot == [dir |-> <<>>]

NoLast == [op |-> "none", fs_call |-> FALSE, spawn |-> FALSE,
           reported |-> FALSE, resized |-> FALSE,
           asked |-> "none", answer |-> "none",
           key |-> "none", before |-> NoSnapshot]

\* no Enter to follow up
NoTrip == [kind |-> "none", stage |-> 0, pane |-> "left", dir |-> <<>>, sel |-> 0]

\* an element of cont: one resumable piece of a handler
Op(o) == [op |-> o, pane |-> "left", name |-> EmptyName, src |-> Root, dst |-> Root]
OpPane(o, p) == [Op(o) EXCEPT !.pane = p]
OpPath(o, p, d) == [Op(o) EXCEPT !.pane = p, !.src = d]
OpName(o, p, n) == [Op(o) EXCEPT !.pane = p, !.name = n]
OpCopy(o, p, s, d) == [Op(o) EXCEPT !.pane = p, !.src = s, !.dst = d]

Push(s, ops) == [s EXCEPT !.cont = ops \o @]
Label(s, l) == [s EXCEPT !.last.op = l]

\* visible rows of a panel: panel.getmaxyx()[0] - 2
visible_height(h) == h - FrameRows

\* refresh_directory_content sorting all names together
refresh_directory_content_mixed(f, directory) ==
    IF NodeAt(f, directory) = "dir"
    THEN [files |-> <<DOTDOT>> \o sorted(Children(f, directory)), err |-> FALSE]
    ELSE [files |-> <<DOTDOT>>, err |-> TRUE]

(* --------------------------- directory read --------------------------- *)
\* refresh_directory_content: '..', then the directories sorted, then the
\* other entries sorted; ['..'] and an error report when scandir fails
refresh_directory_content(f, directory) ==
    IF NodeAt(f, directory) = "dir"
    THEN [files |-> <<DOTDOT>>
                    \o sorted({n \in Children(f, directory) : isdir(f, join(directory, n))})
                    \o sorted({n \in Children(f, directory) : ~isdir(f, join(directory, n))}),
          err |-> FALSE]
    ELSE [files |-> <<DOTDOT>>, err |-> TRUE]

\* MCError.show_error: a MessageBox with the single button OK
show_error(s) ==
    [s EXCEPT !.pc = "prompt", !.prompt = "error", !.last.reported = TRUE]

\* self.<pane>_files = self.refresh_directory_content(d): the assignment
\* happens after the error dialog, if any, has been dismissed
reload(s, p, d) ==
    LET r == refresh_directory_content(s.fs, d) IN
    IF r.err
    THEN show_error(Push(s, <<OpPane("assign_dotdot", p)>>))
    ELSE [s EXCEPT !.files[p] = r.files]

assign_dotdot(s, p) == [s EXCEPT !.files[p] = <<DOTDOT>>]

(* ------------------------------ scrolling ----------------------------- *)
\* _adjust_scroll scrolling down one row short
_adjust_scroll_short(s, pane) ==
    LET height == visible_height(s.panel_h) IN
    IF s.selected[pane] < s.offset[pane]
    THEN [s EXCEPT !.offset[pane] = s.selected[pane]]
    ELSE IF s.selected[pane] >= s.offset[pane] + height
    THEN [s EXCEPT !.offset[pane] = s.selected[pane] - height]
    ELSE s

\* _adjust_scroll without the branch of lines 652-657
_adjust_scroll_up_only(s, pane) ==
    IF s.selected[pane] < s.offset[pane]
    THEN [s EXCEPT !.offset[pane] = s.selected[pane]]
    ELSE s

\* _adjust_scroll(pane)
_adjust_scroll(s, pane) ==
    LET height == visible_height(s.panel_h) IN
    IF s.selected[pane] < s.offset[pane]
    THEN [s EXCEPT !.offset[pane] = s.selected[pane]]
    ELSE IF s.selected[pane] >= s.offset[pane] + height
    THEN [s EXCEPT !.offset[pane] = s.selected[pane] - height + 1]
    ELSE s

\* _handle_up_key moving the cursor of the other pane
_handle_up_key_other(s) ==
    LET p == Other(s.active_pane) IN
    IF s.selected[p] > 0
    THEN _adjust_scroll([s EXCEPT !.selected[p] = @ - 1], p)
    ELSE s

\* _handle_up_key
_handle_up_key(s) ==
    LET p == s.active_pane IN
    IF s.selected[p] > 0
    THEN _adjust_scroll([s EXCEPT !.selected[p] = @ - 1], p)
    ELSE s

\* _handle_down_key wrapping from the last entry to the first
_handle_down_key_wrap(s) ==
    LET p == s.active_pane IN
    IF s.selected[p] < Len(s.files[p]) - 1
    THEN _adjust_scroll([s EXCEPT !.selected[p] = @ + 1], p)
    ELSE _adjust_scroll([s EXCEPT !.selected[p] = 0], p)

\* _handle_down_key
_handle_down_key(s) ==
    LET p == s.active_pane IN
    IF s.selected[p] < Len(s.files[p]) - 1
    THEN _adjust_scroll([s EXCEPT !.selected[p] = @ + 1], p)
    ELSE s

\* create_windows, lines 109-111: the rows of a panel in a terminal of
\* height rows; curses.newwin with 0 lines makes a window that reaches from
\* its first row (1) to the bottom of the screen
panel_rows(height) ==
    IF height - PanelMargin = 0 THEN height - 1 ELSE height - PanelMargin

\* handle_resize also pulling the cursor into the first visible row
handle_resize_clamp(s, height) ==
    LET ph == panel_rows(height)
        h == visible_height(ph)
        adj(sel, off) == IF sel - off >= h THEN Max2(0, sel - h + 1) ELSE off
    IN [s EXCEPT !.panel_h = ph,
                 !.offset = [p \in Panes |-> adj(s.selected[p], s.offset[p])],
                 !.selected = [p \in Panes |-> Min2(s.selected[p], s.offset[p])],
                 !.last.resized = TRUE]

\* create_windows + handle_resize for a terminal of height rows
handle_resize(s, height) ==
    LET ph == panel_rows(height)
        h == visible_height(ph)
        adj(sel, off) == IF sel - off >= h THEN Max2(0, sel - h + 1) ELSE off
    IN [s EXCEPT !.panel_h = ph,
                 !.offset = [p \in Panes |-> adj(s.selected[p], s.offset[p])],
                 !.last.resized = TRUE]

(* ------------------------------- drawing ------------------------------ *)
\* draw_screen, lines 320-323: load a pane whose list is empty
draw_load(s, p) ==
    IF s.files[p] = <<>> THEN reload(s, p, s.dir[p]) ELSE s

\* draw_screen, lines 326-335: never an empty list, selection inside the list
draw_clamp(s) ==
    LET fl == [p \in Panes |-> IF s.files[p] = <<>> THEN <<DOTDOT>> ELSE s.files[p]]
    IN [s EXCEPT !.files = fl,
                 !.selected = [p \in Panes |->
                                 IF s.selected[p] >= Len(fl[p])
                                 THEN Len(fl[p]) - 1 ELSE s.selected[p]]]

\* draw_panel, lines 146 and 166-210: the rows of pane p, each with what
\* os.stat and os.path.isdir find for the entry ("none": only the name is
\* shown); the directory the entries are looked up in is current_dir
draw_panel(s, p) ==
    LET current_dir == s.dir[s.active_pane]
        last_row == Min2(Len(s.files[p]), s.offset[p] + visible_height(s.panel_h))
    IN [i \in 1..(IF last_row > s.offset[p] THEN last_row - s.offset[p] ELSE 0) |->
          LET file == s.files[p][s.offset[p] + i] IN
          [name |-> file,
           stats |-> IF file = DOTDOT THEN NodeAt(s.fs, current_dir)
                     ELSE NodeAt(s.fs, join(current_dir, file))]]

draw_screen == <<OpPane("draw_load", "left"), OpPane("draw_load", "right"),
                 Op("draw_clamp")>>

(* ------------------------- filesystem calls --------------------------- *)
\* outcome of a filesystem call: the filesystem afterwards and the exception
\* raised ("OutOfModel": the result does not fit the bounded filesystem)
Ok(f) == [fs |-> f, exc |-> "none"]
Fail(f, e) == [fs |-> f, exc |-> e]

\* shutil.copy2 that keeps a file already at the destination
copy2_keep(f, src, dst) ==
    LET target == IF isdir(f, dst) THEN join(dst, basename(src)) ELSE dst IN
    IF ~exists(f, src) THEN Fail(f, "FileNotFoundError")
    ELSE IF target \notin Paths THEN Fail(f, "OutOfModel")
    ELSE IF exists(f, target) THEN Ok(f)
    ELSE Ok([f EXCEPT ![target] = f[src]])

\* shutil.copy2(src, dst) of a non-directory
copy2(f, src, dst) ==
    LET target == IF isdir(f, dst) THEN join(dst, basename(src)) ELSE dst
        parent == NodeAt(f, dirname(target))
    IN IF ~exists(f, src) THEN Fail(f, "FileNotFoundError")
       ELSE IF target \notin Paths THEN Fail(f, "OutOfModel")
       ELSE IF target = src THEN Fail(f, "OSError")           \* SameFileError
       ELSE IF parent = "xdir" THEN Fail(f, "PermissionError")
       ELSE IF parent = "none" THEN Fail(f, "FileNotFoundError")
       ELSE IF parent \in FileNodes THEN Fail(f, "OSError")   \* NotADirectoryError
       ELSE IF isdir(f, target) THEN Fail(f, "OSError")       \* IsADirectoryError
       ELSE Ok([f EXCEPT ![target] = f[src]])

\* os.makedirs(d, exist_ok=True)
RECURSIVE makedirs(_, _)
makedirs(f, d) ==
    IF isdir(f, d) THEN Ok(f)
    ELSE IF exists(f, d) THEN Fail(f, "FileExistsError")
    ELSE IF d \notin Paths THEN Fail(f, "OutOfModel")
    ELSE LET up == makedirs(f, dirname(d)) IN
         IF up.exc # "none" THEN up
         ELSE IF NodeAt(up.fs, dirname(d)) = "xdir" THEN Fail(up.fs, "PermissionError")
         ELSE Ok([up.fs EXCEPT ![d] = "dir"])

\* shutil.copytree(src, dst, dirs_exist_ok=True): the entries are listed,
\* the destination is created, every entry is copied; the failures of the
\* entries are collected and raised together as shutil.Error (an OSError)
RECURSIVE copytree(_, _, _)
RECURSIVE copy_entries(_, _, _, _, _)
copy_entries(f, src, dst, names, failed) ==
    IF names = <<>>
    THEN IF failed THEN Fail(f, "OSError") ELSE Ok(f)
    ELSE LET n == Head(names)
             r == IF isdir(f, join(src, n))
                  THEN copytree(f, join(src, n), join(dst, n))
                  ELSE copy2(f, join(src, n), join(dst, n))
         IN IF r.exc = "OutOfModel" THEN r
            ELSE copy_entries(r.fs, src, dst, Tail(names), failed \/ r.exc # "none")

copytree(f, src, dst) ==
    IF NodeAt(f, src) = "xdir" THEN Fail(f, "PermissionError")
    ELSE IF NodeAt(f, src) # "dir" THEN Fail(f, "FileNotFoundError")
    ELSE IF dst \notin Paths \/ (IsPrefix(src, dst) /\ src # dst)
    THEN Fail(f, "OutOfModel")
    ELSE LET entries == sorted(Children(f, src))
             made == makedirs(f, dst)
         IN IF made.exc # "none" THEN made
            ELSE copy_entries(made.fs, src, dst, entries, FALSE)

\* copy_item, lines 455-458, with the failure the environment may add
\* (read-only or full disk)
do_copy(f, src_path, dst_path, env) ==
    IF env = "EACCES" THEN Fail(f, "PermissionError")
    ELSE IF env # "ok" THEN Fail(f, "OSError")
    ELSE IF isdir(f, src_path) THEN copytree(f, src_path, dst_path)
    ELSE copy2(f, src_path, dst_path)

(* ------------------------------ handlers ------------------------------ *)
\* an exception that leaves the handler: handle_input (lines 572-576) writes
\* "Input error" in the status bar and returns True, skipping the rest
RECURSIVE DropToReturn(_)
DropToReturn(c) ==
    IF c = <<>> \/ Head(c).op = "return" THEN c ELSE DropToReturn(Tail(c))
raise_to_input(s) == [s EXCEPT !.cont = DropToReturn(@), !.last.reported = TRUE]

\* MessageBox(...).show() for a question
ask(s, kind) == [s EXCEPT !.pc = "prompt", !.prompt = kind]

\* a process started without waiting for it
external_async(s, kind) == [s EXCEPT !.proc = kind, !.last.spawn = TRUE]

\* subprocess.run(...) started: the caller waits for the process
external(s, kind) == [s EXCEPT !.pc = "external", !.proc = kind, !.last.spawn = TRUE]

\* the cursor always on the first entry of the parent
set_cursor_parent_top(s, p, current_dir_name) ==
    [s EXCEPT !.selected[p] = 0, !.offset[p] = 0]

\* handle_enter, lines 676-677 / 681-682: cursor on the directory just left
set_cursor_parent(s, p, current_dir_name) ==
    LET sel == IF InList(s.files[p], current_dir_name)
               THEN index(s.files[p], current_dir_name) ELSE 0
    IN [s EXCEPT !.selected[p] = sel,
                 !.offset[p] = Max2(0, sel - (s.panel_h - EnterMargin))]

\* the cursor and the scroll offset kept when a directory is entered
set_cursor_child_keep(s, p) == s

\* handle_enter, lines 689-690 / 694-695
set_cursor_child(s, p) == [s EXCEPT !.selected[p] = 0, !.offset[p] = 0]

\* handle_enter, lines 668-682: the selection is '..'
enter_parent(s, p, current_dir) ==
    LET current_dir_name == basename(current_dir)
        new_dir == dirname(current_dir)
    IN IF exists(s.fs, new_dir)
       THEN Push(Label([s EXCEPT !.dir[p] = new_dir], "enter_parent"),
                 <<OpPath("reload", p, new_dir),
                   OpName("set_cursor_parent", p, current_dir_name)>>)
       ELSE Label(s, "enter_parent_gone")

\* entering a directory without reading it
enter_child_stale(s, p, new_dir) ==
    Push(Label([s EXCEPT !.dir[p] = new_dir], "enter_dir"),
         <<OpPane("set_cursor_child", p)>>)

\* handle_enter, lines 685-695: the selection is a directory
enter_child(s, p, new_dir) ==
    Push(Label([s EXCEPT !.dir[p] = new_dir], "enter_dir"),
         <<OpPath("reload", p, new_dir), OpPane("set_cursor_child", p)>>)

\* Enter on a file handing it to the viewer
enter_file_opens(s) ==
    external(Push(Label([s EXCEPT !.term = "shell"], "enter_file"),
                  <<Op("reset_prog_mode")>>), "view")

\* handle_enter, lines 683-685: the selection is not a directory
enter_file(s) == Label(s, "enter_file")

\* handle_enter
handle_enter(s) ==
    LET p == s.active_pane IN
    IF s.selected[p] >= Len(s.files[p])
    THEN raise_to_input(Label(s, "enter_raise"))              \* IndexError
    ELSE
    LET selected_file == s.files[p][s.selected[p] + 1]
        current_dir == s.dir[p]
        s1 == Push(s, draw_screen)                            \* lines 697-698
    IN IF selected_file = DOTDOT
       THEN enter_parent(s1, p, current_dir)
       ELSE IF isdir(s.fs, join(current_dir, selected_file))
       THEN enter_child(s1, p, join(current_dir, selected_file))
       ELSE enter_file(s1)

\* view_file / edit_file launching for a directory as well
hand_off_any(s, kind) ==
    LET p == s.active_pane IN
    IF s.selected[p] >= Len(s.files[p])
    THEN raise_to_input(Label(s, "open_raise"))
    ELSE IF s.files[p][s.selected[p] + 1] # DOTDOT
    THEN external(Push(Label([s EXCEPT !.term = "shell"], "open_run"),
                       <<Op("reset_prog_mode")>> \o draw_screen), kind)
    ELSE Label(s, "open_skip")

\* view_file / edit_file: release the terminal, run the viewer or the opener
hand_off(s, kind) ==
    LET p == s.active_pane IN
    IF s.selected[p] >= Len(s.files[p])
    THEN raise_to_input(Label(s, "open_raise"))               \* IndexError
    ELSE
    LET selected_file == s.files[p][s.selected[p] + 1]
        current_dir == s.dir[p]
    IN IF selected_file # DOTDOT /\ ~isdir(s.fs, join(current_dir, selected_file))
       THEN LET s1 == [s EXCEPT !.term = "shell"]             \* def_prog_mode, endwin
            IN IF s.io = "ok"
               THEN external(Push(Label(s1, "open_run"),
                                  <<Op("reset_prog_mode")>> \o draw_screen), kind)
               ELSE [Label(s1, "open_failed") EXCEPT !.last.reported = TRUE]
       ELSE Label(s, "open_skip")

view_file(s) == hand_off(s, "view")
edit_file(s) == hand_off(s, "edit")

\* curses.reset_prog_mode(); self.screen.refresh()
reset_prog_mode(s) == [s EXCEPT !.term = "prog"]

\* copy_item up to msgbox.show()
copy_item(s) ==
    LET p == s.active_pane IN
    IF s.selected[p] >= Len(s.files[p])
    THEN show_error(Label(s, "copy_raise"))      \* IndexError -> except Exception
    ELSE
    LET src_file == s.files[p][s.selected[p] + 1]
        src_dir == s.dir[p]
        dst_dir == s.dir[Other(p)]
    IN IF src_file = DOTDOT
       THEN Label(s, "copy_dotdot")
       ELSE ask(Push(Label(s, "copy_ask"),
                     <<OpCopy("copy_answer", p, join(src_dir, src_file),
                              join(dst_dir, src_file))>>), "copy")

\* copy_item copying unless the prompt was cancelled
copy_answer_unless_cancel(s, o) ==
    IF s.result # "None"
    THEN LET r == do_copy(s.fs, o.src, o.dst, s.io)
             s1 == [s EXCEPT !.fs = r.fs, !.last.fs_call = TRUE]
         IN IF r.exc = "OutOfModel" THEN Label(s, "out_of_model")
            ELSE IF r.exc = "none"
            THEN Push(Label(s1, "copy_done"),
                      <<OpPath("reload", Other(s.active_pane), s.dir[Other(s.active_pane)])>>
                      \o draw_screen)
            ELSE show_error(Label(s1, "copy_failed"))
    ELSE Push(Label(s, "copy_cancel"), draw_screen)

\* copy_item reloading both panes when the copy failed
copy_answer_reload_failed(s, o) ==
    IF s.result = "True"
    THEN LET r == do_copy(s.fs, o.src, o.dst, s.io)
             s1 == [s EXCEPT !.fs = r.fs, !.last.fs_call = TRUE]
         IN IF r.exc = "OutOfModel" THEN Label(s, "out_of_model")
            ELSE IF r.exc = "none"
            THEN Push(Label(s1, "copy_done"),
                      <<OpPath("reload", Other(s.active_pane), s.dir[Other(s.active_pane)])>>
                      \o draw_screen)
            ELSE show_error(Push(Label(s1, "copy_failed"),
                                 <<OpPath("reload", "left", s.dir["left"]),
                                   OpPath("reload", "right", s.dir["right"])>>))
    ELSE IF s.result = "None"
    THEN Push(Label(s, "copy_cancel"), draw_screen)
    ELSE Push(Label(s, "copy_decline"), draw_screen)

\* copy_item after msgbox.show() returned
copy_answer(s, o) ==
    IF s.result = "True"
    THEN LET r == do_copy(s.fs, o.src, o.dst, s.io)
             s1 == [s EXCEPT !.fs = r.fs, !.last.fs_call = TRUE]
         IN IF r.exc = "OutOfModel" THEN Label(s, "out_of_model")
            ELSE IF r.exc = "none"
            THEN Push(Label(s1, "copy_done"),
                      <<OpPath("reload", Other(s.active_pane), s.dir[Other(s.active_pane)])>>
                      \o draw_screen)
            ELSE show_error(Label(s1, "copy_failed"))
    ELSE IF s.result = "None"
    THEN Push(Label(s, "copy_cancel"), draw_screen)
    ELSE Push(Label(s, "copy_decline"), draw_screen)

\* quit_app up to msgbox.show()
quit_app(s) == ask(Push(Label(s, "quit_ask"), <<Op("quit_answer")>>), "quit")

\* quit_app after msgbox.show() returned: exit(0) or redraw
quit_answer(s) ==
    IF s.result = "True"
    THEN [Label(s, "quit") EXCEPT !.pc = "exited", !.cont = <<>>]
    ELSE Push(Label(s, "quit_declined"), draw_screen)

\* _execute_command, lines 620-628: the terminal is restored and redrawn
exec_except(s) ==
    Push([Label(s, "exec_error") EXCEPT !.term = "prog", !.last.reported = TRUE],
         draw_screen)

\* _execute_command up to subprocess.run
_execute_command(s) ==
    LET s1 == [s EXCEPT !.term = "shell"]                     \* def_prog_mode, endwin
        cwd == NodeAt(s.fs, s.dir[s.active_pane])             \* os.chdir(current_dir)
    IN IF cwd = "none" THEN show_error(Label(s1, "exec_notfound"))
       ELSE IF cwd = "xdir" THEN show_error(Label(s1, "exec_denied"))
       ELSE IF cwd # "dir" THEN exec_except(s1)
       ELSE IF s.io = "ok"
       THEN external(Push(Label(s1, "exec_run"), <<Op("exec_resume")>>), "shell")
       ELSE IF s.io = "ENOENT" THEN show_error(Label(s1, "exec_notfound"))
       ELSE IF s.io = "EACCES" THEN show_error(Label(s1, "exec_denied"))
       ELSE exec_except(s1)

\* _execute_command after the process ended: input(), then lines 598-614
exec_resume(s) ==
    IF s.io = "ok"
    THEN Push([Label(s, "exec_done") EXCEPT !.term = "prog"],
              <<OpPath("reload", "left", s.dir["left"]),
                OpPath("reload", "right", s.dir["right"])>> \o draw_screen)
    ELSE exec_except(s)                                       \* EOFError

\* the command line taken as blank only when it holds no character at all
len_empty(c) == c = <<>>

\* self.command_line_content.strip()
strip_empty(c) == \A i \in 1..Len(c) : c[i] = " "

SeqKeys == {"3", "4", "5", "0"}
Printable == {" ", "x"} \cup SeqKeys

\* Tab that also moves the cursor of the pane it leaves to the top
toggle_pane_reset(s) ==
    [s EXCEPT !.active_pane = Other(@), !.selected[s.active_pane] = 0,
              !.offset[s.active_pane] = 0]

\* handle_input, lines 543-544: Tab
toggle_pane(s) == [s EXCEPT !.active_pane = Other(@)]

\* handle_input, lines 543-567: the elif chain
dispatch(s, key) ==
    CASE key = "TAB" -> Label(toggle_pane(s), "tab")
      [] key = "UP" -> Label(_handle_up_key(s), "up")
      [] key = "DOWN" -> Label(_handle_down_key(s), "down")
      [] key = "ENTER" ->
            IF ~strip_empty(s.command_line_content)
            THEN Push(s, <<Op("execute_command"), Op("clear_cmd")>>)
            ELSE Push(s, <<Op("handle_enter")>>)
      [] key = "F3" -> Push(s, <<Op("view_file")>>)
      [] key = "F4" -> Push(s, <<Op("edit_file")>>)
      [] key = "F5" -> Push(s, <<Op("copy_item")>>)
      [] key = "F10" -> Push(s, <<Op("quit_app")>>)
      [] key = "BS" ->
            Label([s EXCEPT !.command_line_content =
                        IF @ = <<>> THEN @ ELSE SubSeq(@, 1, Len(@) - 1)], "backspace")
      [] key \in Printable ->
            Label([s EXCEPT !.command_line_content = Append(@, key)], "type")
      [] OTHER -> Label(s, "unmapped")

\* every ESC sequence taken as the quit sequence
seq_handler_quit(key) == "quit_app"

\* the handler an ESC sequence selects, lines 519-534
seq_handler(key) ==
    CASE key = "3" -> "view_file"
      [] key = "4" -> "edit_file"
      [] key = "5" -> "copy_item"
      [] key = "0" -> "quit_app"

\* handle_input for a key read age after the last ESC
handle_input(s0, key, age) ==
    LET s == [s0 EXCEPT !.esc_age = age] IN
    IF key = "ESC"
    THEN [Label(s, "esc") EXCEPT !.escape_pressed = TRUE, !.esc_age = "lt",
                                 !.cont = <<Op("return")>>]
    ELSE IF s.escape_pressed /\ age = "lt" /\ key \in SeqKeys
    THEN [s EXCEPT !.cont = <<Op(seq_handler(key)), Op("esc_clear"), Op("return")>>]
    ELSE IF age = "gt"
    THEN [Label(s, "ignored") EXCEPT !.escape_pressed = FALSE,
                                     !.cont = draw_screen \o <<Op("return")>>]
    ELSE dispatch([s EXCEPT !.cont = draw_screen \o <<Op("return")>>], key)

(* ----------------------------- interpreter ---------------------------- *)
\* one resumable piece of a handler
Step(s, o) ==
    CASE o.op = "reload" -> reload(s, o.pane, o.src)
      [] o.op = "assign_dotdot" -> assign_dotdot(s, o.pane)
      [] o.op = "draw_load" -> draw_load(s, o.pane)
      [] o.op = "draw_clamp" -> draw_clamp(s)
      [] o.op = "handle_enter" -> handle_enter(s)
      [] o.op = "set_cursor_parent" -> set_cursor_parent(s, o.pane, o.name)
      [] o.op = "set_cursor_child" -> set_cursor_child(s, o.pane)
      [] o.op = "view_file" -> view_file(s)
      [] o.op = "edit_file" -> edit_file(s)
      [] o.op = "reset_prog_mode" -> reset_prog_mode(s)
      [] o.op = "copy_item" -> copy_item(s)
      [] o.op = "copy_answer" -> copy_answer(s, o)
      [] o.op = "quit_app" -> quit_app(s)
      [] o.op = "quit_answer" -> quit_answer(s)
      [] o.op = "execute_command" -> _execute_command(s)
      [] o.op = "exec_resume" -> exec_resume(s)
      [] o.op = "clear_cmd" -> [s EXCEPT !.command_line_content = <<>>]
      [] o.op = "esc_clear" -> [s EXCEPT !.escape_pressed = FALSE]
      [] o.op = "return" -> [s EXCEPT !.pc = "loop", !.result = "none"]
      [] o.op = "wait" -> [s EXCEPT !.pc = "getch", !.result = "none"]

\* run the handler until it blocks or returns
RECURSIVE Run(_)
Run(s) ==
    IF s.pc # "run" THEN s
    ELSE Run(Step([s EXCEPT !.cont = Tail(@)], Head(s.cont)))

\* the states in which a handler stopped at s is back in the main loop (or
\* has exited), for every answer MessageBox.show can return and after the
\* end of the process subprocess.run waits for
RECURSIVE Outcomes(_)
Outcomes(s) ==
    IF s.pc = "prompt"
    THEN UNION {Outcomes(Run([s EXCEPT !.pc = "run", !.prompt = "none", !.result = r])) :
                r \in {"True", "False", "None"}}
    ELSE IF s.pc = "external"
    THEN Outcomes(Run([s EXCEPT !.pc = "run", !.proc = "none"]))
    ELSE {s}

(* ------------------------------- inputs ------------------------------- *)
Home == <<NameA>>

\* the filesystem the program starts on
InitTree ==
    (Root :> "dir")
    @@ (<<NameA>> :> "dir")
    @@ (<<NameA, NameA>> :> "f2")
    @@ (<<NameA, NameAB>> :> "dir")
    @@ (<<NameA, NameAB, NameA>> :> "f1")
    @@ (<<NameA, NameB>> :> "xdir")
InitFs == [p \in Paths |-> IF p \in DOMAIN InitTree THEN InitTree[p] ELSE "none"]

\* terminal heights: from the smallest with a frame-only panel up to MaxH
Heights == (PanelMargin + FrameRows + 1)..MaxH

MainKeys == {"ESC", "TAB", "UP", "DOWN", "ENTER", "F3", "F4", "F5", "F10",
             "BS", "KEY_RESIZE"} \cup Printable
\* keys pressed after the ESC window lapsed: all but ESC take the same branch
LateKeys == {"ESC", "ENTER", "x"}
\* the text typed on the command line: a blank, then a command
CommandText == <<" ", "x">>
\* navigation and operation keys, which MessageBox.show does not map
NavKeys == {"UP", "F5"}
PromptKeys == {"t", "n", "a", "ESC", "x"}

\* current_time - escape_time: below 0.5 s or above
Ages == {"lt", "gt"}
AgeRank(a) == CASE a = "lt" -> 0 [] a = "gt" -> 1

\* outcomes of subprocess.run / of the copy the environment decides
SpawnOutcomes == {"ok", "ENOENT", "EACCES", "EOTHER"}
CopyOutcomes == {"ok", "EACCES", "EOTHER"}

\* what a shell command does to the filesystem
rm_rf(f, p) == [q \in Paths |-> IF IsPrefix(p, q) THEN "none" ELSE f[q]]
touch(f, p) == [f EXCEPT ![p] = "f1"]
ShellEffects(f, cwd) ==
    {f}
    \cup {rm_rf(f, join(cwd, n)) : n \in Children(f, cwd)}
    \cup (IF cwd = Root THEN {} ELSE {rm_rf(f, cwd)})
    \cup {touch(f, join(cwd, n)) : n \in {m \in Names : join(cwd, m) \in Paths} \ Children(f, cwd)}

(* ------------------ the py_cui variant (src/mc_old.py) ---------------- *)
\* width of the name column of a row
NameColumn == 30

\* str.ljust(n): padded with spaces on the right
ljust(s, n) == s \o [i \in 1..(IF Len(s) < n THEN n - Len(s) ELSE 0) |-> 32]
\* str.rjust(n), the format {size:>8}
rjust(s, n) == [i \in 1..(IF Len(s) < n THEN n - Len(s) ELSE 0) |-> 32] \o s

\* str.strip(): without the spaces at both ends
RECURSIVE strip(_)
strip(s) ==
    IF s = <<>> THEN s
    ELSE IF Head(s) = 32 THEN strip(Tail(s))
    ELSE IF s[Len(s)] = 32 THEN strip(SubSeq(s, 1, Len(s) - 1))
    ELSE s

\* needle in hay (Python substring test)
Contains(hay, needle) ==
    \E i \in 0..(Len(hay) - Len(needle)) : SubSeq(hay, i + 1, i + Len(needle)) = needle

DirTag == <<60, 68, 73, 82, 62>>                              \* '<DIR>'
ModTime == <<50, 48, 50, 52, 45, 48, 49, 45, 48, 49, 32, 48, 48, 58, 48, 48>>

\* _truncate_filename for a name no longer than max_length (lines 682-683)
_truncate_filename(filename) == ljust(filename, NameColumn)

\* _format_mode of the node's mode: 'drwxr-xr-x', 'd---------', '-rw-r--r--'
_format_mode(node) ==
    CASE node = "dir" -> <<100, 114, 119, 120, 114, 45, 120, 114, 45, 120>>
      [] node = "xdir" -> <<100, 45, 45, 45, 45, 45, 45, 45, 45, 45>>
      [] OTHER -> <<45, 114, 119, 45, 114, 45, 45, 114, 45, 45>>

\* _format_size of the node's size: '1.00 B' or '2.00 B'
_format_size(node) ==
    IF node = "f1" THEN <<49, 46, 48, 48, 32, 66>> ELSE <<50, 46, 48, 48, 32, 66>>

\* _update_pane, lines 176-206: the rows of a directory that can be listed
parent_row == ljust(DOTDOT, NameColumn) \o <<32>> \o DirTag
dir_row(f, d, n) ==
    _truncate_filename(n) \o <<32>> \o DirTag \o <<32>>
    \o _format_mode(NodeAt(f, join(d, n))) \o <<32>> \o ModTime
file_row(f, d, n) ==
    _truncate_filename(n) \o <<32>> \o rjust(_format_size(NodeAt(f, join(d, n))), 8)
    \o <<32>> \o _format_mode(NodeAt(f, join(d, n))) \o <<32>> \o ModTime
rows(f, d) ==
    LET dirs == sorted({n \in Children(f, d) : isdir(f, join(d, n))})
        regular_files == sorted({n \in Children(f, d) : ~isdir(f, join(d, n))})
    IN <<parent_row>>
       \o [i \in 1..Len(dirs) |-> dir_row(f, d, dirs[i])]
       \o [i \in 1..Len(regular_files) |-> file_row(f, d, regular_files[i])]

\* _update_pane: the list is cleared (cursor on the first row), then filled;
\* a directory that cannot be listed leaves it empty and opens the error popup
_update_pane(o, f, p) ==
    IF NodeAt(f, o.dir[p]) = "dir"
    THEN [o EXCEPT !.items[p] = rows(f, o.dir[p]), !.sel[p] = 0]
    ELSE [o EXCEPT !.items[p] = <<>>, !.sel[p] = 0, !.popup = TRUE]

\* refresh_file_lists.get_dir_state
get_dir_state(f, d) ==
    IF NodeAt(f, d) = "dir"
    THEN [dirs |-> {n \in Children(f, d) : isdir(f, join(d, n))},
          files |-> {n \in Children(f, d) : ~isdir(f, join(d, n))}]
    ELSE [dirs |-> {}, files |-> {}]

\* refresh_file_lists, lines 158-160 / 162-164: one pane
refresh_pane(o, f, p) ==
    IF get_dir_state(f, o.dir[p]) # o.prev[p]
    THEN [_update_pane(o, f, p) EXCEPT !.prev[p] = get_dir_state(f, o.dir[p])]
    ELSE o

\* refresh_file_lists
refresh_file_lists(o, f) == refresh_pane(refresh_pane(o, f, "left"), f, "right")

\* _set_cursor_on_item: the first row that contains item_name
_set_cursor_on_item(o, p, item_name) ==
    LET hits == {i \in 1..Len(o.items[p]) : Contains(o.items[p][i], item_name)}
    IN IF hits = {} THEN o
       ELSE [o EXCEPT !.sel[p] = (CHOOSE i \in hits : \A j \in hits : i <= j) - 1]

\* handle_left_selection / handle_right_selection
handle_selection(o, f, p) ==
    IF o.items[p] = <<>> THEN [o EXCEPT !.lastop = "enter_none"]
    ELSE
    LET selected_row == o.items[p][o.sel[p] + 1]
        name == strip(SubSeq(selected_row, 1, NameColumn))
    IN IF name = DOTDOT
       THEN LET current_dir_name == basename(o.dir[p])
                o1 == refresh_file_lists([o EXCEPT !.dir[p] = dirname(o.dir[p])], f)
            IN [_set_cursor_on_item(o1, p, current_dir_name)
                  EXCEPT !.lastop = "enter_parent"]
       ELSE IF Contains(selected_row, DirTag)
       THEN IF isdir(f, join(o.dir[p], name))
            THEN [refresh_file_lists([o EXCEPT !.dir[p] = join(o.dir[p], name)], f)
                    EXCEPT !.lastop = "enter_dir"]
            ELSE [o EXCEPT !.lastop = "enter_gone"]
       ELSE [o EXCEPT !.lastop = "enter_file"]

\* on_left_selection_change / on_right_selection_change: the list widget
\* moved its cursor to row i
on_selection_change(o, p, i) ==
    [o EXCEPT !.sel[p] = i, !.active_pane = p, !.lastop = "move"]

\* switch_pane
switch_pane(o) == [o EXCEPT !.active_pane = Other(@), !.lastop = "tab"]

DirPrefix == <<91, 68, 73, 82, 93>>                           \* '[DIR]'

\* get_active_pane_info: the directory of the active pane, the row its list
\* widget returns (<<>> for None, the list being empty) and the other directory
get_active_pane_info(o) ==
    LET p == o.active_pane
        row == IF o.items[p] = <<>> THEN <<>> ELSE o.items[p][o.sel[p] + 1]
    IN [current_dir |-> o.dir[p],
        selected |-> IF Len(row) >= 5 /\ SubSeq(row, 1, 5) = DirPrefix
                     THEN SubSeq(row, 7, Len(row))
                     ELSE row,
        other_dir |-> o.dir[Other(p)]]

\* confirm_message: the values the f-string of the operation interpolates
confirm_message(info, kind) ==
    IF kind = "delete" THEN <<info.selected>>
    ELSE <<info.selected, info.other_dir>>

\* copy_file, move_file and delete_file (kind) up to the popup: the error popup for
\* no selection or '..', the yes/no popup otherwise
operation_request(o, kind) ==
    LET info == get_active_pane_info(o) IN
    IF info.selected = <<>> \/ info.selected = DOTDOT
    THEN [o EXCEPT !.popup = TRUE, !.lastop = kind]
    ELSE [o EXCEPT !.popup = TRUE, !.confirm = kind, !.operand = info.selected,
                   !.message = confirm_message(info, kind),
                   !.lastop = kind]

\* shutil.copytree(src, dst): the destination must not exist
copytree_strict(f, src, dst) ==
    IF exists(f, dst) /\ isdir(f, src) THEN Fail(f, "FileExistsError")
    ELSE copytree(f, src, dst)

\* _do_copy_async, lines 545-548
_do_copy_async(f, source_path, dest_path) ==
    IF isdir(f, source_path)
    THEN copytree_strict(f, source_path, dest_path)
    ELSE copy2(f, source_path, dest_path)

\* _do_move, lines 573-585, for a source that does not exist: shutil.move
\* raises; moving an existing source is not modelled
_do_move(f, source_path, dest_path) ==
    IF ~exists(f, source_path) THEN Fail(f, "FileNotFoundError")
    ELSE Fail(f, "OutOfModel")

\* _do_delete, lines 609-612; rmtree stops at a directory it cannot list
\* (what it removed before that is not modelled)
_do_delete(f, file_path) ==
    IF \E q \in Paths : IsPrefix(file_path, q) /\ NodeAt(f, q) = "xdir"
    THEN Fail(f, "PermissionError")
    ELSE IF isdir(f, file_path) THEN Ok(rm_rf(f, file_path))
    ELSE IF exists(f, file_path) THEN Ok([f EXCEPT ![file_path] = "none"])
    ELSE Fail(f, "FileNotFoundError")

\* the callback of the yes/no popup
do_operation(o, f) ==
    LET source_path == join(o.dir[o.active_pane], o.operand)
        dest_path == join(o.dir[Other(o.active_pane)], o.operand)
    IN CASE o.confirm = "copy" -> _do_copy_async(f, source_path, dest_path)
         [] o.confirm = "move" -> _do_move(f, source_path, dest_path)
         [] OTHER -> _do_delete(f, source_path)

\* the py_cui variant is not running
NoOld == [run |-> FALSE]

\* __init__, lines 32-49: both panes at the home directory, the lists filled
old_init(f) ==
    refresh_file_lists([run |-> TRUE,
                        dir |-> [p \in Panes |-> Home],
                        items |-> [p \in Panes |-> <<>>],
                        sel |-> [p \in Panes |-> 0],
                        active_pane |-> "left",
                        prev |-> [p \in Panes |-> [dirs |-> {DOTDOT}, files |-> {}]],
                        popup |-> FALSE,
                        confirm |-> "none",
                        operand |-> <<>>,
                        answered |-> "none",
                        message |-> <<>>,
                        lastop |-> "init",
                        was |-> [dir |-> Home, sel |-> 0, pane |-> "left"]], f)

\* the filesystem the py_cui variant starts on
OldTree ==
    (Root :> "dir")
    @@ (<<NameA>> :> "dir")
    @@ (<<NameA, NameA>> :> "f2")
    @@ (<<NameA, NameAB>> :> "dir")
    @@ (<<NameA, NameAB, NameA>> :> "f1")
    @@ (<<NameA, NameAB, NameB>> :> "xdir")
    @@ (<<NameA, NameB>> :> "dir")
OldFs == [p \in Paths |-> IF p \in DOMAIN OldTree THEN OldTree[p] ELSE "none"]

\* a filesystem with a directory 'b' in / and another 'b' in /a, each
\* holding one file
MergeTree ==
    (Root :> "dir")
    @@ (<<NameA>> :> "dir")
    @@ (<<NameA, NameB>> :> "dir")
    @@ (<<NameA, NameB, NameB>> :> "f2")
    @@ (<<NameB>> :> "dir")
    @@ (<<NameB, NameA>> :> "f1")
MergeFs == [p \in Paths |-> IF p \in DOMAIN MergeTree THEN MergeTree[p] ELSE "none"]

(* ------------------------------- actions ------------------------------ *)
\* __init__, lines 40-62, on the filesystem f
Program(f) ==
    /\ dir = [p \in Panes |-> Home]
    /\ files = [p \in Panes |-> <<>>]
    /\ selected = [p \in Panes |-> 0]
    /\ offset = [p \in Panes |-> 0]
    /\ active_pane = "left"
    /\ panel_h \in {h - PanelMargin : h \in Heights}
    /\ escape_pressed = FALSE
    /\ esc_age = "gt"
    /\ command_line_content = <<>>
    /\ fs = f
    /\ term = "prog"
    /\ pc = "loop"
    /\ prompt = "none"
    /\ result = "none"
    /\ proc = "none"
    /\ cont = <<>>
    /\ changed = FALSE
    /\ pre = NoSnapshot
    /\ last = NoLast
    /\ trip = NoTrip

Init == Program(InitFs) /\ old = NoOld

\* the state t a handler leaves; a run is followed up to the end of the
\* first handler that changes the filesystem and the redraw after it (a copy
\* whose confirmation was open when another process changed the filesystem
\* is still followed)
Finish(t) ==
    /\ t.last.op # "out_of_model"
    /\ t.fs # fs => ~changed \/ t.last.op \in {"copy_done", "copy_failed"}
    /\ SetState(t)
    /\ changed' = (changed \/ t.fs # fs)
    /\ old' = old

\* run(), lines 751-758: at most every 0.1 s the terminal size is compared
\* and the screen redrawn; then handle_input waits for a key
Tick(elapsed) ==
    /\ pc \in {"loop", "resized"}
    /\ pc = "resized" => elapsed
    /\ LET t == Run([St EXCEPT !.pc = "run", !.last = [NoLast EXCEPT !.op = "tick"],
                               !.cont = IF elapsed THEN draw_screen \o <<Op("wait")>>
                                        ELSE <<Op("wait")>>])
       IN /\ Finish(t)
          /\ pre' = NoSnapshot
          /\ trip' = IF trip.stage = 1 THEN trip ELSE NoTrip

\* run(), lines 752-755: the terminal has a new height; handle_resize runs
\* and run() is about to redraw
Resize(height) ==
    /\ pc = "loop"
    /\ height # panel_h + PanelMargin
    /\ Finish([handle_resize([St EXCEPT !.last = [NoLast EXCEPT !.op = "resize"]], height)
                 EXCEPT !.pc = "resized"])
    /\ pre' = Snapshot(St)
    /\ trip' = NoTrip

\* the Enter just handled (label op) as the first or the second of a pair
EnterLabels == {"enter_parent", "enter_parent_gone", "enter_dir", "enter_file"}
next_trip(op) ==
    LET p == active_pane
        start(kind) == [kind |-> kind, stage |-> 1, pane |-> p,
                        dir |-> dir[p], sel |-> selected[p]]
    IN IF op \in EnterLabels /\ trip.stage = 1 THEN [trip EXCEPT !.stage = 2]
       ELSE IF op = "enter_parent" THEN start("up")
       ELSE IF op = "enter_dir" THEN start("down")
       ELSE NoTrip

\* handle_input: a key arrives in the main loop
Key(k, age, env) ==
    /\ pc = "getch"
    /\ ~changed
    /\ AgeRank(age) >= AgeRank(esc_age)
    /\ k \in SeqKeys => escape_pressed /\ age = "lt"
    /\ age = "gt" => k \in LateKeys
    /\ (k \in Printable \ SeqKeys /\ age # "gt") =>
            /\ Len(command_line_content) < Len(CommandText)
            /\ k = CommandText[Len(command_line_content) + 1]
    /\ env # "ok" => k \in {"F3", "F4", "3", "4", "ENTER"}
    /\ LET t == Run(handle_input([St EXCEPT !.pc = "run", !.io = env,
                                            !.last = NoLast], k, age))
       IN /\ env # "ok" => t.last.op \in {"open_failed", "exec_notfound", "exec_denied", "exec_error"}
          /\ Finish(t)
          /\ pre' = Snapshot(St)
          /\ trip' = next_trip(t.last.op)

\* the panes, the command line, the filesystem and the interaction in
\* progress, as a key pressed during a prompt finds them
Modal == [panes |-> Snapshot(St), fs |-> fs, term |-> term, pc |-> pc,
          prompt |-> prompt, proc |-> proc, cont |-> cont]

\* MessageBox.show that takes any unmapped key as a dismissal
show_any_key(k) ==
    CASE k \in {"t", "T", "y", "Y"} -> "True"
      [] k \in {"n", "N"} -> "False"
      [] OTHER -> "None"

show(k) ==
    CASE k \in {"t", "T", "y", "Y"} -> "True"
      [] k \in {"n", "N"} -> "False"
      [] k \in {"ESC", "a", "A"} -> "None"
      [] OTHER -> "open"

\* MessageBox.show: the key pressed while the dialog is open
PromptKey(k, env) ==
    /\ pc = "prompt"
    /\ env # "ok" => prompt = "copy" /\ show(k) = "True"
    /\ IF show(k) = "open"
       THEN UNCHANGED vars
       ELSE LET t == Run([St EXCEPT !.pc = "run", !.prompt = "none",
                                    !.result = show(k), !.io = env,
                                    !.last.asked = prompt,
                                    !.last.answer = show(k)])
            IN /\ env # "ok" => t.last.op = "copy_failed" /\ prompt = "copy"
               /\ Finish(t)
               /\ pre' = pre
               /\ trip' = trip

\* MessageBox.show, with the key it read kept in last.key: an unmapped key
\* goes round the while loop, a mapped one returns to the caller
ModalKey(k, env) ==
    /\ pc = "prompt"
    /\ env # "ok" => prompt = "copy" /\ show(k) = "True"
    /\ IF show(k) = "open"
       THEN /\ last' = [last EXCEPT !.key = k, !.before = Modal]
            /\ UNCHANGED <<dir, files, selected, offset, active_pane, panel_h,
                           escape_pressed, esc_age, command_line_content, fs,
                           term, pc, prompt, result, proc, cont, changed, pre,
                           trip, old>>
       ELSE LET t == Run([St EXCEPT !.pc = "run", !.prompt = "none",
                                    !.result = show(k), !.io = env,
                                    !.last.asked = prompt,
                                    !.last.answer = show(k),
                                    !.last.key = k,
                                    !.last.before = NoSnapshot])
            IN /\ env # "ok" => t.last.op = "copy_failed" /\ prompt = "copy"
               /\ Finish(t)
               /\ pre' = pre
               /\ trip' = trip

\* the external process ends (for a shell command: after it changed the
\* filesystem to f and the user answered input(), or input() raised EOFError)
ProcExit(f, env) ==
    /\ pc = "external"
    /\ proc # "shell" => f = fs /\ env = "ok"
    /\ LET t == Run([St EXCEPT !.pc = "run", !.proc = "none", !.fs = f, !.io = env])
       IN /\ Finish(t)
          /\ pre' = pre
          /\ trip' = trip

\* another process creates or removes an entry of the active pane's
\* directory while the copy confirmation waits for its answer
Elsewhere(f) ==
    /\ pc = "prompt" /\ prompt = "copy"
    /\ ~changed
    /\ f # fs
    /\ fs' = f
    /\ changed' = TRUE
    /\ UNCHANGED <<dir, files, selected, offset, active_pane, panel_h,
                   escape_pressed, esc_age, command_line_content, term, pc,
                   prompt, result, proc, cont, pre, last, trip, old>>

RunLoop == \E elapsed \in BOOLEAN : Tick(elapsed)
TerminalResize == \E height \in Heights : Resize(height)
KeyPress == \E k \in MainKeys, age \in Ages, env \in SpawnOutcomes : Key(k, age, env)
PromptPress == \E k \in PromptKeys, env \in CopyOutcomes : PromptKey(k, env)
ProcessExit ==
    /\ pc = "external"
    /\ \E f \in ShellEffects(fs, dir[active_pane]), env \in {"ok", "EOF"} : ProcExit(f, env)

Next == RunLoop \/ TerminalResize \/ KeyPress \/ PromptPress \/ ProcessExit

Spec == Init /\ [][Next]_vars

\* run(), lines 752-755, for a terminal shrunk to fewer than PanelMargin
\* rows: create_windows asks curses.newwin for a panel of negative height,
\* curses.error is raised, and neither handle_resize nor run() catches it
ResizeError(height) ==
    /\ pc = "loop"
    /\ height < PanelMargin
    /\ Finish([St EXCEPT !.pc = "exited",
                         !.last = [NoLast EXCEPT !.op = "resize_error"]])
    /\ pre' = Snapshot(St)
    /\ trip' = NoTrip

\* the program in a terminal that may also shrink below PanelMargin rows
TerminalShrink == \E height \in 1..(PanelMargin - 1) : ResizeError(height)
NextSmall == Next \/ TerminalShrink
SpecSmall == Init /\ [][NextSmall]_vars

\* the program in a terminal that is resized to the heights at which a panel
\* has no visible row or curses chooses the panel's height
LowHeights == PanelMargin..(PanelMargin + FrameRows)
\* run(), lines 752-755, for such a height; a run is followed up to the
\* first of these resizes and the redraw after it
ResizeLow(height) ==
    /\ pc = "loop"
    /\ ~changed
    /\ SetState([handle_resize([St EXCEPT !.last = [NoLast EXCEPT !.op = "resize"]], height)
                   EXCEPT !.pc = "resized"])
    /\ changed' = TRUE
    /\ old' = old
    /\ pre' = Snapshot(St)
    /\ trip' = NoTrip
TerminalLow == \E height \in LowHeights : ResizeLow(height)
NextLow == RunLoop \/ KeyPress \/ PromptPress \/ ProcessExit \/ TerminalLow
SpecLow == Init /\ [][NextLow]_vars

\* the program in a terminal that keeps its size, with the keys read by
\* MessageBox.show recorded
ModalPress == \E k \in PromptKeys \cup NavKeys, env \in CopyOutcomes : ModalKey(k, env)
NextModal == RunLoop \/ KeyPress \/ ModalPress \/ ProcessExit
SpecModal == Init /\ [][NextModal]_vars

\* the program in a terminal that keeps its size, on a filesystem that
\* another process changes while a copy confirmation is open
OtherProcess ==
    /\ pc = "prompt"
    /\ \E f \in ShellEffects(fs, dir[active_pane]) : Elsewhere(f)
NextShared == RunLoop \/ KeyPress \/ PromptPress \/ ProcessExit \/ OtherProcess
SpecShared == Init /\ [][NextShared]_vars

\* the program in a terminal that keeps its size, started in a directory
\* /a that holds a file 'a' and an empty directory 'ab'
EmptyDirFs ==
    [p \in Paths |-> IF p \in {Root, <<NameA>>, <<NameA, NameAB>>} THEN "dir"
                     ELSE IF p = <<NameA, NameA>> THEN "f1"
                     ELSE "none"]
InitEmptyDir == Program(EmptyDirFs) /\ old = NoOld
SpecEmptyDir == InitEmptyDir /\ [][NextModal]_vars

(* ----------------------- actions, py_cui variant ---------------------- *)
mc_vars == <<dir, files, selected, offset, active_pane, panel_h, escape_pressed,
             esc_age, command_line_content, fs, term, pc, prompt, result, proc,
             cont, changed, pre, last, trip>>

InitOld == Program(OldFs) /\ old = old_init(OldFs)

\* the state o a handler of the py_cui variant leaves
OldFinish(o) ==
    /\ old' = [o EXCEPT !.was = [dir |-> old.dir[old.active_pane],
                                 sel |-> old.sel[old.active_pane],
                                 pane |-> old.active_pane]]
    /\ UNCHANGED mc_vars

\* Enter in the focused list
OldEnter ==
    /\ old.run /\ ~old.popup
    /\ OldFinish(handle_selection(old, fs, old.active_pane))

\* the focused list moves its cursor one row
OldMove(delta) ==
    /\ old.run /\ ~old.popup
    /\ old.sel[old.active_pane] + delta \in 0..(Len(old.items[old.active_pane]) - 1)
    /\ OldFinish(on_selection_change(old, old.active_pane,
                                     old.sel[old.active_pane] + delta))

\* Tab
OldTab ==
    /\ old.run /\ ~old.popup
    /\ OldFinish(switch_pane(old))

\* the error popup is closed
OldDismiss ==
    /\ old.run /\ old.popup /\ old.confirm = "none"
    /\ OldFinish([old EXCEPT !.popup = FALSE, !.lastop = "dismiss"])

OldCursor == \E delta \in {-1, 1} : OldMove(delta)

\* F5, F6, F8
OldRequest(kind) ==
    /\ old.run /\ ~old.popup
    /\ OldFinish(operation_request(old, kind))

\* the yes/no popup is answered: on yes the operation runs and its outcome
\* is shown in a message box, the lists being refreshed after a success
OldAnswer(yes) ==
    /\ old.run /\ old.confirm # "none"
    /\ LET r == IF yes THEN do_operation(old, fs) ELSE Ok(fs)
           o == [old EXCEPT !.confirm = "none", !.answered = old.confirm,
                            !.popup = yes,
                            !.lastop = IF ~yes THEN "declined"
                                       ELSE IF r.exc = "none" THEN "done"
                                       ELSE "failed",
                            !.was = [dir |-> old.dir[old.active_pane],
                                     sel |-> old.sel[old.active_pane],
                                     pane |-> old.active_pane]]
       IN /\ r.exc # "OutOfModel"
          /\ old' = IF yes /\ r.exc = "none" THEN refresh_file_lists(o, r.fs) ELSE o
          /\ fs' = r.fs
    /\ UNCHANGED <<dir, files, selected, offset, active_pane, panel_h,
                   escape_pressed, esc_age, command_line_content, term, pc,
                   prompt, result, proc, cont, changed, pre, last, trip>>

OldOperation == \E kind \in {"copy", "move", "delete"} : OldRequest(kind)
OldConfirm == \E yes \in BOOLEAN : OldAnswer(yes)

NextOld == OldEnter \/ OldCursor \/ OldTab \/ OldDismiss \/ OldOperation \/ OldConfirm

SpecOld == InitOld /\ [][NextOld]_vars

\* the py_cui variant started on the filesystem MergeFs
InitOldMerge == Program(MergeFs) /\ old = old_init(MergeFs)
SpecOldMerge == InitOldMerge /\ [][NextOld]_vars

(* ----------------------- _do_move on its own -------------------------- *)
\* A directory is a function from the names of its entries to their content.
DOT == 46
MovedTag == <<95, 109, 111, 118, 101, 100>>                   \* '_moved'

\* str(i) for i >= 0
RECURSIVE str(_)
str(i) == IF i < 10 THEN <<48 + i>> ELSE str(i \div 10) \o <<48 + (i % 10)>>

\* os.path.splitext of a name without separators: split at the last dot,
\* unless only dots precede it
splitext(name) ==
    LET dots == {i \in 1..Len(name) : name[i] = DOT}
        dotIndex == IF dots = {} THEN 0 ELSE CHOOSE i \in dots : \A j \in dots : j <= i
    IN IF dotIndex > 0 /\ \E i \in 1..(dotIndex - 1) : name[i] # DOT
       THEN <<SubSeq(name, 1, dotIndex - 1), SubSeq(name, dotIndex, Len(name))>>
       ELSE <<name, <<>>>>

\* f"{base_name}_moved{i}{ext}"
new_name(base_name, ext, i) == base_name \o MovedTag \o str(i) \o ext

\* the while loop of lines 577-579, probing from i
RECURSIVE probe(_, _, _, _)
probe(dest_dir, base_name, ext, i) ==
    IF new_name(base_name, ext, i) \in DOMAIN dest_dir
    THEN probe(dest_dir, base_name, ext, i + 1)
    ELSE new_name(base_name, ext, i)

\* the choice of the name probing from 0
free_name_from_zero(dest_dir, source_name) ==
    IF source_name \in DOMAIN dest_dir
    THEN probe(dest_dir, splitext(source_name)[1], splitext(source_name)[2], 0)
    ELSE source_name

\* _do_move, lines 573-580: the name the item gets in the destination
free_name(dest_dir, source_name) ==
    IF source_name \in DOMAIN dest_dir
    THEN probe(dest_dir, splitext(source_name)[1], splitext(source_name)[2], 1)
    ELSE source_name

\* shutil.move of a file to a path in another directory: os.rename, which
\* replaces a file already at that path
shutil_move(m, name) ==
    [m EXCEPT !.src_dir = [n \in DOMAIN m.src_dir \ {m.source} |-> m.src_dir[n]],
              !.dest_dir = [n \in DOMAIN m.dest_dir \cup {name} |->
                               IF n = name THEN m.src_dir[m.source] ELSE m.dest_dir[n]],
              !.name = name,
              !.moved = TRUE]

\* _do_move for the file m.source of m.src_dir and the directory m.dest_dir
do_move(m) == shutil_move(m, free_name(m.dest_dir, m.source))

\* the names moved: plain, with an extension, hidden, with two dots
SourceNames == {<<97>>, <<97, DOT, 98>>, <<DOT, 97>>, <<97, DOT, 98, DOT, 98>>}
\* the entries the destination directory may hold when source is moved:
\* source itself, its first MaxMoved '_moved' names, and two near misses
Candidates(source) ==
    {source, source \o MovedTag \o str(1), splitext(source)[1] \o MovedTag \o splitext(source)[2]}
    \cup {new_name(splitext(source)[1], splitext(source)[2], i) : i \in 1..MaxMoved}

InitMove ==
    /\ Program(InitFs)
    /\ \E source \in SourceNames : \E taken \in SUBSET Candidates(source) :
          old = [run |-> FALSE,
                 source |-> source,
                 src_dir |-> (source :> "moved"),
                 dest_dir |-> [n \in taken |-> "kept"],
                 before |-> taken,
                 name |-> <<>>,
                 moved |-> FALSE]

\* the yes/no popup of move_file was answered yes
DoMove ==
    /\ ~old.run /\ ~old.moved
    /\ old' = do_move(old)
    /\ UNCHANGED mc_vars

NextMove == DoMove
SpecMove == InitMove /\ [][NextMove]_vars

(* --------------------- the scroll rule on its own --------------------- *)
\* any selected index and scroll offset of the active pane, any panel with
\* at least one visible row
InitScroll ==
    /\ dir = [p \in Panes |-> Home]
    /\ files = [p \in Panes |-> <<>>]
    /\ active_pane \in Panes
    /\ \E sel \in 0..MaxIndex, off \in 0..MaxIndex :
          /\ selected = [p \in Panes |-> IF p = active_pane THEN sel ELSE 0]
          /\ offset = [p \in Panes |-> IF p = active_pane THEN off ELSE 0]
    /\ panel_h \in {h - PanelMargin : h \in Heights}
    /\ escape_pressed = FALSE
    /\ esc_age = "gt"
    /\ command_line_content = <<>>
    /\ fs = InitFs
    /\ term = "prog"
    /\ pc = "loop"
    /\ prompt = "none"
    /\ result = "none"
    /\ proc = "none"
    /\ cont = <<>>
    /\ changed = FALSE
    /\ pre = NoSnapshot
    /\ last = NoLast
    /\ trip = NoTrip
    /\ old = NoOld

\* _adjust_scroll(active pane), once and then again
AdjustScroll ==
    /\ pc \in {"loop", "scrolled"}
    /\ SetState([_adjust_scroll(St, active_pane)
                   EXCEPT !.pc = "scrolled",
                          !.last = [NoLast EXCEPT !.op = IF pc = "loop" THEN "adjust"
                                                         ELSE "adjust_again"]])
    /\ pre' = Snapshot(St)
    /\ UNCHANGED <<changed, trip, old>>

NextScroll == AdjustScroll

SpecScroll == InitScroll /\ [][NextScroll]_vars

(* ------------------------------ properties ---------------------------- *)
\* C1: after an Up, Down, Enter or resize step taken in a state where both
\* panes have loaded entries, satisfy the pane invariants and the visible
\* height is at least 1 (before and after), both panes satisfy
\* 0 <= selected < len(files), 0 <= offset <= selected and
\* selected < offset + visible height.
C1_PaneInvariants ==
    LET inv(sel, off, n, h) ==
            0 <= sel /\ sel < n /\ 0 <= off /\ off <= sel /\ sel < off + h
        step == \/ pc = "loop" /\ last.op \in {"up", "down"} \cup EnterLabels
                \/ pc = "resized"
    IN (/\ step
        /\ pre # NoSnapshot
        /\ visible_height(pre.panel_h) >= 1
        /\ visible_height(panel_h) >= 1
        /\ \A p \in Panes : inv(pre.selected[p], pre.offset[p], Len(pre.files[p]),
                                visible_height(pre.panel_h)))
       => \A p \in Panes : inv(selected[p], offset[p], Len(files[p]),
                               visible_height(panel_h))

\* a resize that had to move a scroll offset
C1_Witness ==
    /\ pc = "resized"
    /\ pre # NoSnapshot
    /\ \E p \in Panes : offset[p] # pre.offset[p]

\* C2: whenever handle_input has dispatched a key to a handler (cursor keys,
\* handle_enter, view_file, edit_file, copy_item), both panes' entry lists
\* were non-empty when the key arrived.
C2_EntriesLoadedAtDispatch ==
    (/\ pc \in {"loop", "prompt", "external"}
     /\ pre # NoSnapshot
     /\ last.op \in {"up", "down", "enter_raise", "open_raise", "copy_raise",
                     "open_run", "open_failed", "open_skip",
                     "copy_ask", "copy_dotdot"} \cup EnterLabels)
    => \A p \in Panes : pre.files[p] # <<>>

C4_TerminalReacquired ==
    (/\ pc = "loop"
     /\ last.op \in {"open_run", "open_failed", "exec_done", "exec_error",
                     "exec_notfound", "exec_denied"})
    => term = "prog"

\* C5: Enter on '..' sets the pane's directory to the parent of the directory
\* it showed, reloads the list, and puts the cursor on the entry whose name
\* is exactly the basename of the directory just left, or on index 0 when no
\* entry has that name (at the root the pane stays at the root).
C5_EnterParent ==
    (old.run /\ old.lastop = "enter_parent")
    => LET p == old.was.pane
           left_dir == old.was.dir
           name_of(row) == strip(SubSeq(row, 1, NameColumn))
           named == {i \in 1..Len(old.items[p]) : name_of(old.items[p][i]) = basename(left_dir)}
       IN /\ old.dir[p] = dirname(left_dir)
          /\ old.items[p] = rows(fs, old.dir[p])
          /\ old.sel[p] = IF named = {} THEN 0
                          ELSE (CHOOSE i \in named : \A j \in named : i <= j) - 1

\* C6: Enter with the cursor on a directory entry sets the active pane's dir
\* to that child, loads its entries (first of them '..'; only '..' when the
\* directory cannot be read) and sets selected = 0 and offset = 0.
C6_EnterDirectory ==
    (/\ pc = "loop"
     /\ last.op \in EnterLabels
     /\ LET a == pre.active_pane
            name == pre.files[a][pre.selected[a] + 1]
        IN name # DOTDOT /\ isdir(fs, join(pre.dir[a], name)))
    => LET a == pre.active_pane
           child == join(pre.dir[a], pre.files[a][pre.selected[a] + 1])
       IN /\ active_pane = a
          /\ dir[a] = child
          /\ files[a] = refresh_directory_content(fs, child).files
          /\ files[a][1] = DOTDOT
          /\ selected[a] = 0
          /\ offset[a] = 0

\* a directory with entries entered from a scrolled list
C6_Witness ==
    /\ pc = "loop"
    /\ last.op = "enter_dir"
    /\ Len(files[active_pane]) > 1
    /\ pre.offset[active_pane] > 0

\* C7: Enter with the cursor on a regular file changes nothing: dir, files,
\* selected and offset of both panes and the active pane are as before, and
\* no external process was launched.
C7_EnterFileNoOp ==
    (/\ pc \in {"loop", "external"}
     /\ last.op \in EnterLabels
     /\ LET a == pre.active_pane
            name == pre.files[a][pre.selected[a] + 1]
        IN name # DOTDOT /\ NodeAt(fs, join(pre.dir[a], name)) \in FileNodes)
    => /\ pc = "loop"
       /\ dir = pre.dir
       /\ files = pre.files
       /\ selected = pre.selected
       /\ offset = pre.offset
       /\ active_pane = pre.active_pane
       /\ ~last.spawn
       /\ proc = "none"

\* Enter pressed on a file below the first entries
C7_Witness ==
    /\ pc = "loop"
    /\ last.op = "enter_file"
    /\ selected[active_pane] > 1

\* C8: for a pane in a non-root directory D whose parent can be read and
\* lists D, Enter on '..' followed immediately by Enter on the entry then
\* selected leaves the pane in D with the selected index it had in D.
C8_RoundTripUpDown ==
    (/\ pc = "loop"
     /\ trip.kind = "up"
     /\ trip.stage = 2
     /\ trip.dir # Root
     /\ NodeAt(fs, dirname(trip.dir)) = "dir"
     /\ exists(fs, trip.dir))
    => /\ dir[trip.pane] = trip.dir
       /\ selected[trip.pane] = trip.sel

\* back in a directory two levels below the root
C8_Witness ==
    /\ pc = "loop"
    /\ trip.kind = "up"
    /\ trip.stage = 2
    /\ Len(trip.dir) >= 2
    /\ dir[trip.pane] = trip.dir

\* C9: for a directory entry d at index i of a pane showing P, Enter on d
\* gives dir = P/d with selected = 0 on '..', and the Enter that follows
\* gives dir = P with selected = i.
C9_RoundTripDownUp ==
    (pc = "loop" /\ trip.kind = "down")
    => LET p == trip.pane IN
       /\ trip.stage = 1 =>
             /\ dir[p] = join(trip.dir, pre.files[p][trip.sel + 1])
             /\ selected[p] = 0
             /\ files[p][1] = DOTDOT
       /\ trip.stage = 2 =>
             /\ dir[p] = trip.dir
             /\ selected[p] = trip.sel
             /\ isdir(fs, join(dir[p], files[p][selected[p] + 1]))

\* back on the second directory of the parent
C9_Witness ==
    /\ pc = "loop"
    /\ trip.kind = "down"
    /\ trip.stage = 2
    /\ trip.sel = 2
    /\ dir[trip.pane] = trip.dir

\* C10: Up (delta -1) and Down (delta +1) move the active pane's selected by
\* delta when the result is an index of the list, the offset then following
\* the scroll rule; otherwise selected and offset stay as they were.
C10_MoveCursor ==
    (pc = "loop" /\ last.op \in {"up", "down"})
    => LET a == pre.active_pane
           delta == IF last.op = "up" THEN -1 ELSE 1
           target == pre.selected[a] + delta
           h == visible_height(pre.panel_h)
           rule(sel, off) == IF sel < off THEN sel
                             ELSE IF sel >= off + h THEN sel - h + 1
                             ELSE off
       IN /\ active_pane = a
          /\ IF target \in 0..(Len(pre.files[a]) - 1)
             THEN /\ selected[a] = target
                  /\ offset[a] = rule(target, pre.offset[a])
             ELSE /\ selected[a] = pre.selected[a]
                  /\ offset[a] = pre.offset[a]

\* Down that scrolled the list
C10_Witness ==
    /\ pc = "loop"
    /\ last.op = "down"
    /\ selected[active_pane] = pre.selected[active_pane] + 1
    /\ offset[active_pane] = pre.offset[active_pane] + 1

\* C11: _adjust_scroll applied to a pane with selected >= 0, offset >= 0 and
\* at least one visible row gives offset <= selected < offset + visible
\* height, and applying it a second time changes nothing.
C11_ScrollRuleIdempotent ==
    pc = "scrolled"
    => LET p == active_pane IN
       /\ offset[p] <= selected[p]
       /\ selected[p] < offset[p] + visible_height(panel_h)
       /\ _adjust_scroll(St, p) = St
       /\ last.op = "adjust_again" => offset = pre.offset /\ selected = pre.selected

\* the rule applied twice to a pane it had to scroll down
C11_Witness ==
    /\ pc = "scrolled"
    /\ last.op = "adjust_again"
    /\ offset[active_pane] > 0
    /\ selected[active_pane] > offset[active_pane]

\* C12: after handle_resize each pane, the inactive one included, has the
\* scroll offset that the scroll rule gives for its selected index, its old
\* offset and the new visible height.
C12_ResizeAppliesScrollRule ==
    pc = "resized"
    => LET h == visible_height(panel_h)
           rule(sel, off) == IF sel < off THEN sel
                             ELSE IF sel >= off + h THEN sel - h + 1
                             ELSE off
       IN \A p \in Panes : offset[p] = rule(pre.selected[p], pre.offset[p])

\* C13: handle_resize changes neither pane's selected index, directory or
\* entries, nor the active pane.
C13_ResizeFrame ==
    pc = "resized"
    => /\ selected = pre.selected
       /\ dir = pre.dir
       /\ files = pre.files
       /\ active_pane = pre.active_pane

\* a resize of a terminal whose inactive pane had its cursor moved down
C13_Witness ==
    /\ pc = "resized"
    /\ pre # NoSnapshot
    /\ panel_h # pre.panel_h
    /\ selected[Other(active_pane)] > 0

C15_ModalSerialized ==
    /\ (pc = "prompt") = (prompt # "none")
    /\ (pc = "external") = (proc # "none")
    /\ ~(prompt # "none" /\ proc # "none")
    /\ last.key \in NavKeys
       => /\ pc = "prompt"
          /\ Modal = last.before
          /\ last.before.prompt # "none"
          /\ last.before.proc = "none"

\* F5 pressed again while the copy confirmation is open
C15_Witness ==
    /\ pc = "prompt"
    /\ prompt = "copy"
    /\ last.key = "F5"
    /\ selected[active_pane] > 0

C17_ParentMarkerRejected ==
    (/\ old.run
     /\ old.lastop \in {"copy", "move", "delete"}
     /\ old.items[old.was.pane] # <<>>
     /\ strip(SubSeq(old.items[old.was.pane][old.was.sel + 1], 1, NameColumn)) = DOTDOT)
    => /\ old.confirm = "none"
       /\ fs = OldFs

\* C18: once a confirmed copy has succeeded and the screen is redrawn, each
\* pane showing the source's parent or the destination's parent directory,
\* the active pane included, lists what the filesystem now holds there.
C18_CopyReloadsAffectedPanes ==
    (pc = "loop" /\ last.op = "copy_done")
    => \A p \in Panes :
          LET r == refresh_directory_content(fs, dir[p])
          IN files[p] = IF r.err THEN <<DOTDOT>> ELSE r.files

\* C19: when a confirmed copy has failed, the failure went to the error
\* handler (an error box is or was open), and both panes' entries, selected,
\* offset and dir are as they were when the copy was requested: no pane was
\* reloaded.
C19_FailedCopyKeepsPanes ==
    last.op = "copy_failed"
    => /\ last.reported
       /\ last.fs_call
       /\ pc = "prompt" => prompt = "error"
       /\ dir = pre.dir
       /\ files = pre.files
       /\ selected = pre.selected
       /\ offset = pre.offset

\* a copy that failed after another process had changed the source directory,
\* the error box dismissed
C19_Witness ==
    /\ last.op = "copy_failed"
    /\ pc = "loop"
    /\ changed
    /\ files[active_pane] # refresh_directory_content(fs, dir[active_pane]).files

\* C20: a confirmed copy of a directory whose name is also a directory in the
\* destination succeeds, and afterwards the destination directory holds every
\* entry it held before and every entry of the source.
C20_CopyMergesDirectory ==
    (old.run /\ old.lastop \in {"done", "failed"} /\ old.answered = "copy")
    => LET name == strip(SubSeq(old.operand, 1, NameColumn))
           src == join(old.was.dir, name)
           dst == join(old.dir[Other(old.was.pane)], name)
       IN (/\ NodeAt(MergeFs, src) = "dir"
           /\ NodeAt(MergeFs, dst) = "dir"
           /\ ~IsPrefix(src, dst)
           /\ ~IsPrefix(dst, src))
          => /\ old.lastop = "done"
             /\ \A n \in Children(MergeFs, dst) : exists(fs, join(dst, n))
             /\ \A n \in Children(MergeFs, src) : exists(fs, join(dst, n))

\* C21: after a confirmed move of an entry whose name also exists in the
\* other pane's directory, the move has succeeded, the source is gone from
\* its old path, and every entry the destination directory held is still
\* there with its content.
C21_MoveNeverOverwrites ==
    (old.run /\ old.lastop \in {"done", "failed"} /\ old.answered = "move")
    => LET name == strip(SubSeq(old.operand, 1, NameColumn))
           src == join(old.was.dir, name)
           dst_dir == old.dir[Other(old.was.pane)]
       IN (/\ exists(MergeFs, src)
           /\ exists(MergeFs, join(dst_dir, name))
           /\ old.was.dir # dst_dir)
          => /\ old.lastop = "done"
             /\ ~exists(fs, src)
             /\ \A n \in Children(MergeFs, dst_dir) :
                   NodeAt(fs, join(dst_dir, n)) = NodeAt(MergeFs, join(dst_dir, n))

\* C22: when the destination directory already holds the name, the moved
\* item gets <base>_moved<i><ext>, the suffix before the extension, for the
\* smallest i >= 1 whose name is free (the probing has ended); when it does
\* not, the item keeps its name.
C22_MovedNameSmallestFree ==
    (~old.run /\ old.moved)
    => LET base_name == splitext(old.source)[1]
           ext == splitext(old.source)[2]
       IN /\ old.source \notin old.before => old.name = old.source
          /\ old.source \in old.before
             => \E i \in 1..(Cardinality(old.before) + 1) :
                   /\ old.name = base_name \o MovedTag \o str(i) \o ext
                   /\ old.name \notin old.before
                   /\ \A j \in 1..(i - 1) :
                         (base_name \o MovedTag \o str(j) \o ext) \in old.before
          /\ base_name \o ext = old.source
          /\ ext # <<>> => ext[1] = DOT /\ \A k \in 2..Len(ext) : ext[k] # DOT
          /\ ext = <<>> => \A k \in 2..Len(old.source) : old.source[k] # DOT

\* 'a.b' moved into a directory holding 'a.b' and 'a_moved1.b': it arrives
\* as 'a_moved2.b'
C22_Witness ==
    /\ ~old.run /\ old.moved
    /\ old.source = <<97, 46, 98>>
    /\ old.before = {<<97, 46, 98>>, <<97, 95, 109, 111, 118, 101, 100, 49, 46, 98>>}
    /\ old.name = <<97, 95, 109, 111, 118, 101, 100, 50, 46, 98>>

\* C23: a listing a pane has just been given by a reload starts with '..',
\* continues with the directories in strictly ascending codepoint order of
\* name and ends with the non-directories in strictly ascending codepoint
\* order; the names after '..' are exactly the entries of the directory.
C23_ListingOrdered ==
    \A p \in Panes :
       (/\ pc = "loop"
        /\ \/ last.op \in {"enter_dir", "enter_parent"} /\ p = active_pane
           \/ last.op = "exec_done"
           \/ last.op = "copy_done" /\ p = Other(active_pane)
        /\ NodeAt(fs, dir[p]) = "dir")
       => LET l == files[p]
              d == {i \in 2..Len(l) : isdir(fs, join(dir[p], l[i]))}
          IN /\ l # <<>> /\ l[1] = DOTDOT
             /\ \A i \in d : \A j \in (2..Len(l)) \ d : i < j
             /\ \A i, j \in 2..Len(l) :
                   (i < j /\ (i \in d <=> j \in d)) => NameLess(l[i], l[j])
             /\ {l[i] : i \in 2..Len(l)} = Children(fs, dir[p])
             /\ Len(l) = 1 + Cardinality(Children(fs, dir[p]))

\* a pane entered a directory holding two directories and a file whose name
\* sorts before theirs
C23_Witness ==
    /\ pc = "loop"
    /\ last.op = "enter_dir"
    /\ Len(files[active_pane]) = 4
    /\ ~isdir(fs, join(dir[active_pane], files[active_pane][4]))
    /\ NameLess(files[active_pane][4], files[active_pane][2])

\* C24: when Enter leads into a directory that cannot be read, the pane's
\* directory is the new one, its listing is exactly the parent entry '..',
\* the error is reported, and the cursor is on a row of the listing.
C24_UnreadableDirectoryListsParent ==
    (/\ old.run
     /\ old.lastop = "enter_dir"
     /\ NodeAt(fs, old.dir[old.was.pane]) = "xdir")
    => LET p == old.was.pane IN
       /\ old.dir[p] # old.was.dir
       /\ old.popup
       /\ old.items[p] = <<parent_row>>
       /\ old.sel[p] \in 0..(Len(old.items[p]) - 1)

\* C25: the program has ended only if the quit prompt was answered True;
\* after a False or None answer to the quit prompt it is still running.
C25_ExitOnlyByConfirmedQuit ==
    /\ pc = "exited"
       => /\ last.op = "quit"
          /\ last.asked = "quit"
          /\ last.answer = "True"
    /\ (last.asked = "quit" /\ last.answer \in {"False", "None"}) => pc # "exited"

\* C26: after a confirmed delete of a file, or of a directory in which
\* everything can be listed, the delete has succeeded, the entry and all its
\* descendants are gone, and every other path is as it was.
C26_DeleteRemovesSubtree ==
    (old.run /\ old.lastop \in {"done", "failed"} /\ old.answered = "delete")
    => LET name == strip(SubSeq(old.operand, 1, NameColumn))
           file_path == join(old.was.dir, name)
       IN (/\ exists(OldFs, file_path)
           /\ \A q \in Paths : IsPrefix(file_path, q) => NodeAt(OldFs, q) # "xdir")
          => /\ old.lastop = "done"
             /\ \A q \in Paths :
                   fs[q] = IF IsPrefix(file_path, q) THEN "none" ELSE OldFs[q]

\* C27: when the copy confirmation is open for an entry other than '..', the source path is
\* the active pane's directory joined with the entry's name, the destination
\* path is the other pane's directory joined with the same name, and the
\* confirmation message names these two paths.
C27_CopyPathsFromPanes ==
    (old.run /\ old.confirm = "copy")
    => LET p == old.active_pane
           name == strip(SubSeq(old.items[p][old.sel[p] + 1], 1, NameColumn))
           source_path == join(old.dir[p], old.operand)
           dest_path == join(old.dir[Other(p)], old.operand)
       IN name # DOTDOT
          => /\ source_path = join(old.dir[p], name)
             /\ dest_path = join(old.dir[Other(p)], name)
             /\ old.message = <<source_path, dest_path>>

\* C28: while the shell command runs, the program waits for it in the active
\* pane's directory and reads no key; once it has ended and the handler is
\* back in the main loop, both panes hold the listing of their directory as
\* the command left it, and the command line is empty.
C28_ShellCommandThenReload ==
    /\ (pc = "external" /\ proc = "shell")
       => /\ NodeAt(fs, dir[active_pane]) = "dir"
          /\ term = "shell"
          /\ prompt = "none"
    /\ (pc = "loop" /\ last.spawn /\ last.op \in {"exec_done", "exec_error"})
       => /\ \A p \in Panes :
                files[p] = refresh_directory_content(fs, dir[p]).files
          /\ command_line_content = <<>>

\* C29: once a shell command has ended and the screen has been redrawn, both
\* panes satisfy 0 <= offset <= selected < len(files) and
\* selected < offset + visible height.
C29_PanesValidAfterCommand ==
    (pc = "loop" /\ last.spawn /\ last.op \in {"exec_done", "exec_error"})
    => \A p \in Panes :
          /\ 0 <= offset[p]
          /\ offset[p] <= selected[p]
          /\ selected[p] < Len(files[p])
          /\ selected[p] < offset[p] + visible_height(panel_h)

\* C30: every key other than ESC that handle_input reads is dispatched to its
\* handler, also when more than 0.5 s have passed since the last ESC or ESC
\* was never pressed: no key is dropped without its handler having run.
C30_LateKeyReachesHandler ==
    (pc = "loop" /\ pre # NoSnapshot) => last.op # "ignored"

\* C31: any single key pressed while the error dialog of show_error is open
\* dismisses it: no key leaves the error dialog open.
C31_ErrorDialogAnyKey ==
    (last.key # "none" /\ last.before # NoSnapshot)
    => last.before.prompt # "error"

C33_CopyOntoItselfRejected ==
    (/\ pc \in {"loop", "prompt"}
     /\ last.asked = "copy"
     /\ last.answer = "True"
     /\ pre.dir["left"] = pre.dir["right"])
    => /\ fs = EmptyDirFs
       /\ last.reported
       /\ dir = pre.dir
       /\ files = pre.files
       /\ selected = pre.selected
       /\ offset = pre.offset

C35_PanelShowsOwnDirectory ==
    (pc = "loop" /\ \A p \in Panes : files[p] # <<>>)
    => \A p \in Panes :
          LET drawn == draw_panel(St, p) IN
          \A i \in 1..Len(drawn) :
             drawn[i].stats = IF drawn[i].name = DOTDOT THEN NodeAt(fs, dir[p])
                             ELSE NodeAt(fs, join(dir[p], drawn[i].name))

\* C36: view_file and edit_file release the terminal and launch a process
\* exactly when the active pane's selected entry is a regular file; on '..'
\* or a directory the terminal stays with the program, nothing is launched
\* and the active pane, the command line and the filesystem are as before;
\* in every case both panes' dir, files, selected and offset are unchanged.
C36_OpenOnlyRegularFiles ==
    (/\ pc \in {"loop", "external"}
     /\ pre # NoSnapshot
     /\ last.op \in {"open_run", "open_failed", "open_skip"})
    => LET a == pre.active_pane
           name == pre.files[a][pre.selected[a] + 1]
           regular == name # DOTDOT /\ NodeAt(fs, join(pre.dir[a], name)) \in FileNodes
       IN /\ (last.op \in {"open_run", "open_failed"}) = regular
          /\ last.spawn => regular
          /\ pc = "external" => last.op = "open_run" /\ proc \in {"view", "edit"}
          /\ ~regular
             => /\ pc = "loop"
                /\ term = pre.term
                /\ proc = "none"
                /\ ~last.spawn
                /\ active_pane = pre.active_pane
                /\ command_line_content = pre.command_line_content
                /\ fs = InitFs
          /\ dir = pre.dir
          /\ files = pre.files
          /\ selected = pre.selected
          /\ offset = pre.offset

\* F3 or F4 pressed with the cursor on a directory
C36_Witness ==
    /\ pc = "loop"
    /\ pre # NoSnapshot
    /\ last.op = "open_skip"
    /\ selected[active_pane] > 0
    /\ isdir(fs, join(dir[active_pane], files[active_pane][selected[active_pane] + 1]))

\* C37: Enter dispatched while the command line holds a character other than
\* a blank runs _execute_command on it and navigates nowhere (both panes keep
\* their directory); Enter dispatched while the command line is empty or all
\* blanks runs handle_enter, starts no process and leaves the command line
\* as it was.
C37_EnterCommandOrNavigate ==
    (/\ pc \in {"loop", "prompt", "external"}
     /\ pre # NoSnapshot
     /\ last.op \in EnterLabels \cup {"enter_raise", "exec_run", "exec_done", "exec_error",
                                      "exec_notfound", "exec_denied"})
    => LET line == pre.command_line_content
           blank == \A i \in 1..Len(line) : line[i] = " "
       IN IF ~blank
          THEN /\ last.op \notin EnterLabels \cup {"enter_raise"}
               /\ dir = pre.dir
               /\ active_pane = pre.active_pane
               /\ last.op \in {"exec_run", "exec_done"} => last.spawn
               /\ pc = "external" => proc = "shell"
               /\ pc = "loop" => command_line_content = <<>>
          ELSE /\ last.op \in EnterLabels \cup {"enter_raise"}
               /\ ~last.spawn
               /\ proc = "none"
               /\ term = pre.term
               /\ command_line_content = line

\* Enter on a directory while the command line holds a single blank
C37_Witness ==
    /\ pc = "loop"
    /\ pre # NoSnapshot
    /\ last.op = "enter_dir"
    /\ command_line_content = <<" ">>
    /\ dir[active_pane] # pre.dir[active_pane]

C39_OperandIsEntryName ==
    (old.run /\ old.confirm # "none")
    => LET p == old.active_pane
           d == old.dir[p]
           names == <<DOTDOT>>
                    \o sorted({n \in Children(fs, d) : isdir(fs, join(d, n))})
                    \o sorted({n \in Children(fs, d) : ~isdir(fs, join(d, n))})
       IN /\ old.items[p] = rows(fs, d)
          /\ old.operand = names[old.sel[p] + 1]

\* C40: after handle_resize for any new terminal height, those that leave a
\* panel no visible row included, both panes have 0 <= offset <= selected.
C40_ResizeKeepsOffsetBelowCursor ==
    pc = "resized"
    => \A p \in Panes : 0 <= offset[p] /\ offset[p] <= selected[p]

====
